---- MODULE Spec2Model ----
(***************************************************************************)
(* ProfessionalAssetManager (src/app/core/assets.py): the image resolver   *)
(* get_image, its provider chain, the file cache and the gallery fan-out.  *)
(*                                                                         *)
(* Time is counted in hours.  A coroutine runs atomically between two      *)
(* network awaits (asyncio, one event loop): the cache file reads and      *)
(* writes contain no await, so a task is suspended only while its search   *)
(* request or its existence check is in flight.                            *)
(***************************************************************************)
EXTENDS Integers, Sequences, FiniteSets, TLC

VARIABLES
    unsplash_access_key,  \* self.unsplash_access_key
    settings_key,         \* settings.unsplash_access_key (config.py)
    registry,             \* self.business_categories, as the process holds it
    pyhash,               \* hash() of each str category in this process
    store,                \* cache_dir: cache key -> content of <key>.json
    now,                  \* datetime.now(), in hours
    tasks,                \* the get_image coroutines
    gal,                  \* the get_image_gallery call and its last return
    ncalls,               \* get_image calls made so far
    kt                    \* two argument triples and their cache key strings

vars == <<unsplash_access_key, settings_key, registry, pyhash, store, now, tasks, gal, ncalls, kt>>

(* ------------------------------ bounds --------------------------------- *)

MaxNow == 24
MaxGallery == 2
MaxCalls == 2
MaxCatLen == 2

(* --------------------------- value domains ----------------------------- *)

\* Python's None
None == "<None>"
\* an argument that is not hashable (a list passed as category)
UnhashableArg == "['x']"

PLACEHOLDER_KEY == "YOUR_UNSPLASH_ACCESS_KEY"
RealKey == "abc123"

StrCategories == {"business-team", "nonexistent-category"}
Categories == StrCategories \cup {UnhashableArg}
Sizes == {<<1920, 1080>>}
RawUrls == {"https://img.example/photo123/raw"}

\* self.cache_duration = timedelta(hours=24)
cache_duration == 24

\* self.business_categories (the entries the model's categories can hit)
business_categories == [c \in {"business-team"} |-> <<"business", "team", "office", "professional">>]

Hashable(c) == c # UnhashableArg

\* if x:  for an Optional[str]
Truthy(v) == v \notin {None, ""}
\* isinstance(x, str)
IsStr(v) == v # None

(* --------------------------- pure helpers ------------------------------ *)

\* f"{n}" of an int
FmtInt(n) == ToString(n)

\* the key string without the delimiter between category and width
KeyString_NoDelimiter(c, w, h) == c \o FmtInt(w) \o "_" \o FmtInt(h)

\* f"{category}_{width}_{height}"
KeyString(c, w, h) == c \o "_" \o FmtInt(w) \o "_" \o FmtInt(h)

\* hashlib.md5(...).hexdigest(): a digest, taken to be collision free on the
\* key strings of the model
md5hex(s) == "md5(" \o s \o ")"

_generate_cache_key(c, w, h) == md5hex(KeyString(c, w, h))

_get_local_placeholder(w, h) ==
    "/static/images/placeholder-" \o FmtInt(w) \o "x" \o FmtInt(h) \o ".svg"

\* the lookup without the registry: every category is its own keyword
Keywords_CategoryOnly(c) == <<c>>

\* self.business_categories.get(category, [category])
Keywords(c) ==
    IF c \in DOMAIN registry THEN registry[c] ELSE <<c>>

\* the asset URL with width and height exchanged
UnsplashUrl_Swapped(raw, w, h) ==
    raw \o "&w=" \o FmtInt(h) \o "&h=" \o FmtInt(w) \o "&fit=crop&crop=center"

\* f"{photo['urls']['raw']}&w={width}&h={height}&fit=crop&crop=center"
UnsplashUrl(raw, w, h) ==
    raw \o "&w=" \o FmtInt(w) \o "&h=" \o FmtInt(h) \o "&fit=crop&crop=center"

\* keywords[0].replace(" ", "-"): the keywords of the model hold no space
SourceUrl(c, w, h) ==
    "https://source.unsplash.com/" \o FmtInt(w) \o "x" \o FmtInt(h) \o "/?" \o Keywords(c)[1]

\* the random-image URL seeded with the hash itself
PicsumUrl_RawHash(c, w, h) ==
    "https://picsum.photos/" \o FmtInt(w) \o "/" \o FmtInt(h)
        \o "?random=" \o FmtInt(pyhash[c])

\* f"https://picsum.photos/{width}/{height}?random={hash(category) % 1000}"
PicsumUrl(c, w, h) ==
    "https://picsum.photos/" \o FmtInt(w) \o "/" \o FmtInt(h)
        \o "?random=" \o FmtInt(pyhash[c] % 1000)

\* the credential test of _fetch_from_unsplash
Configured ==
    ~(unsplash_access_key = "" \/ unsplash_access_key = PLACEHOLDER_KEY)

(* ----------------------------- cache store ----------------------------- *)

AllKeys == {_generate_cache_key(c, s[1], s[2]) : c \in Categories, s \in Sizes}

AbsentFile == [kind |-> "absent", url |-> None, ts |-> 0]
\* a file json.load, the key lookups or fromisoformat fail on
UnreadableFile == [kind |-> "unreadable", url |-> None, ts |-> 0]
RecordFile(u, t) == [kind |-> "record", url |-> u, ts |-> t]

\* _get_cached_image with a record kept for half the duration only
_get_cached_image_HalfDuration(key) ==
    LET f == store[key] IN
    IF f.kind = "record" /\ 2 * (now - f.ts) < cache_duration THEN f.url ELSE None

\* _get_cached_image with <= for <
_get_cached_image_Inclusive(key) ==
    LET f == store[key] IN
    IF f.kind = "record" /\ now - f.ts <= cache_duration THEN f.url ELSE None

\* _get_cached_image: the URL of a record younger than cache_duration, else None
_get_cached_image(key) ==
    LET f == store[key] IN
    IF f.kind = "record" /\ now - f.ts < cache_duration THEN f.url ELSE None

WriteOutcomes == {"ok", "open_failed", "dump_failed"}

\* a cache write that keeps the file when it already holds a record
_cache_image_url_KeepExisting(key, url, wo) ==
    IF store[key].kind = "record"
    THEN store
    ELSE CASE wo = "ok" -> [store EXCEPT ![key] = RecordFile(url, now)]
           [] wo = "open_failed" -> store
           [] wo = "dump_failed" -> [store EXCEPT ![key] = UnreadableFile]

\* _cache_image_url: open(cache_file, 'w') truncates the file before json.dump
\* writes it, so a failure after the open leaves a file that does not parse
_cache_image_url(key, url, wo) ==
    CASE wo = "ok" -> [store EXCEPT ![key] = RecordFile(url, now)]
      [] wo = "open_failed" -> store
      [] wo = "dump_failed" -> [store EXCEPT ![key] = UnreadableFile]

(* ------------------------------- tasks --------------------------------- *)

Standalone == MaxGallery + 1
TaskIds == 1..Standalone

\* st: where the coroutine is; again: the call repeats the triple of the call
\* its caller made just before; p1..p3: what each provider came to; nreq: the
\* network requests sent; kw: the keywords the provider at work looked up;
\* wrote: how the cache write went
IdleTask == [st |-> "idle", cat |-> "", w |-> 0, h |-> 0, again |-> FALSE,
             hit |-> FALSE, p1 |-> "-", p2 |-> "-", p3 |-> "-", nreq |-> 0,
             kw |-> <<>>, res |-> None, wrote |-> "-"]

\* the except clause of get_image (lines 90-92)
OnException_NoReturn(w, h) == None
OnException(w, h) == _get_local_placeholder(w, h)

\* get_image from its entry to its first network await (or to its return);
\* this variant walks the fallback services before the search provider
Begin_FallbackFirst(c, w, h, again) ==
    LET t0 == [IdleTask EXCEPT !.cat = c, !.w = w, !.h = h, !.again = again]
        cached == _get_cached_image(_generate_cache_key(c, w, h))
    IN  IF Truthy(cached)
        THEN [t0 EXCEPT !.st = "done", !.hit = TRUE, !.res = cached]
        ELSE IF ~Hashable(c)
             THEN [t0 EXCEPT !.st = "done", !.p1 = "absent", !.p2 = "raised",
                             !.p3 = "raised", !.res = OnException(w, h)]
             ELSE [t0 EXCEPT !.st = "head", !.nreq = 1, !.kw = Keywords(c)]

\* get_image from its entry to its first network await (or to its return)
Begin(c, w, h, again) ==
    LET t0 == [IdleTask EXCEPT !.cat = c, !.w = w, !.h = h, !.again = again]
        cached == _get_cached_image(_generate_cache_key(c, w, h))
    IN  IF Truthy(cached)
        THEN [t0 EXCEPT !.st = "done", !.hit = TRUE, !.res = cached]
        ELSE IF ~Hashable(c)
             THEN \* dict.get raises in both providers, hash(category) raises in the
                  \* handler of _fetch_fallback_image, and get_image catches it
                  [t0 EXCEPT !.st = "done", !.p1 = "absent", !.p2 = "raised",
                             !.p3 = "raised", !.res = OnException(w, h)]
             ELSE IF Configured
                  THEN \* line 109, then the search request
                       [t0 EXCEPT !.st = "search", !.nreq = 1, !.kw = Keywords(c)]
                  ELSE \* line 141, then the existence check
                       [t0 EXCEPT !.st = "head", !.p1 = "absent", !.nreq = 1,
                                  !.kw = Keywords(c)]

\* lines 83-88 of get_image, without the cache write
Conclude_NoWrite(t, tk, url, wo) ==
    /\ tasks' = [tasks EXCEPT ![t] = [tk EXCEPT !.st = "done", !.res = url]]
    /\ store' = store

\* lines 83-88 of get_image, with a cache write whose error is not caught: it
\* reaches the except clause of get_image
Conclude_WriteRaises(t, tk, url, wo) ==
    /\ tasks' = [tasks EXCEPT ![t] =
                    [tk EXCEPT !.st = "done", !.wrote = wo,
                               !.res = IF wo = "ok" THEN url ELSE OnException(tk.w, tk.h)]]
    /\ store' = _cache_image_url(_generate_cache_key(tk.cat, tk.w, tk.h), url, wo)

\* lines 83-88 of get_image: cache and return the URL, or return the placeholder
Conclude(t, tk, url, wo) ==
    IF Truthy(url)
    THEN /\ tasks' = [tasks EXCEPT ![t] = [tk EXCEPT !.st = "done", !.res = url, !.wrote = wo]]
         /\ store' = _cache_image_url(_generate_cache_key(tk.cat, tk.w, tk.h), url, wo)
    ELSE /\ tasks' = [tasks EXCEPT ![t] =
                        [tk EXCEPT !.st = "done", !.res = _get_local_placeholder(tk.w, tk.h)]]
         /\ store' = store

(* ------------------------------ actions -------------------------------- *)

NoGallery == [active |-> FALSE, cats |-> <<>>, w |-> 0, h |-> 0,
              results |-> <<>>, images |-> <<>>]

ConfigStates == {PLACEHOLDER_KEY, RealKey}
PyHashes == { [c \in StrCategories |-> IF c = "business-team" THEN 4321 ELSE -3],
              [c \in StrCategories |-> IF c = "business-team" THEN -3 ELSE -1003] }
InitKeys == {_generate_cache_key(c, s[1], s[2]) : c \in StrCategories, s \in Sizes}
\* a file a failed write truncated, or a record written at hour 0
InitFiles == {AbsentFile, UnreadableFile, RecordFile("https://old.example/a.jpg", 0)}

NoKeyTest == [a |-> <<"", 0, 0>>, b |-> <<"", 0, 0>>, ka |-> "", kb |-> "", done |-> FALSE]

Init ==
    \* line 54 sets the placeholder; the comment there asks to replace it
    /\ unsplash_access_key \in ConfigStates
    /\ settings_key \in {None, RealKey}
    /\ registry = business_categories
    /\ pyhash \in PyHashes
    \* what an earlier process left in cache_dir: at most one file
    /\ \E k \in InitKeys, f \in InitFiles : store = [x \in AllKeys |-> IF x = k THEN f ELSE AbsentFile]
    /\ now = 0
    /\ tasks = [t \in TaskIds |-> IdleTask]
    /\ gal = NoGallery
    /\ ncalls = 0
    /\ kt = NoKeyTest

SameTriple(tk, c, w, h) == tk.st = "done" /\ tk.cat = c /\ tk.w = w /\ tk.h = h

\* get_image with a cache lookup that, on a hit, stamps the record with the
\* time of the read
GetImage_TouchOnHit(c, w, h) ==
    /\ tasks[Standalone].st \in {"idle", "done"}
    /\ ~gal.active
    /\ ncalls < MaxCalls
    /\ ncalls' = ncalls + 1
    /\ tasks' = [tasks EXCEPT ![Standalone] =
                    Begin(c, w, h, SameTriple(tasks[Standalone], c, w, h))]
    /\ gal' = NoGallery
    /\ store' = IF tasks'[Standalone].hit
                THEN [store EXCEPT ![_generate_cache_key(c, w, h)].ts = now]
                ELSE store
    /\ UNCHANGED <<kt, unsplash_access_key, settings_key, registry, pyhash, now>>

\* get_image whose except clause writes the placeholder it returns to the cache
GetImage_CachePlaceholder(c, w, h) ==
    /\ tasks[Standalone].st \in {"idle", "done"}
    /\ ~gal.active
    /\ ncalls < MaxCalls
    /\ ncalls' = ncalls + 1
    /\ tasks' = [tasks EXCEPT ![Standalone] =
                    Begin(c, w, h, SameTriple(tasks[Standalone], c, w, h))]
    /\ gal' = NoGallery
    /\ store' = IF tasks'[Standalone].p3 = "raised"
                THEN _cache_image_url(_generate_cache_key(c, w, h),
                                      tasks'[Standalone].res, "ok")
                ELSE store
    /\ UNCHANGED <<kt, unsplash_access_key, settings_key, registry, pyhash, now>>

\* a page handler awaits get_image(category, width, height); a handler awaits
\* its calls one after the other (main.py), so no gallery of it is running
GetImage(c, w, h) ==
    /\ tasks[Standalone].st \in {"idle", "done"}
    /\ ~gal.active
    /\ ncalls < MaxCalls
    /\ ncalls' = ncalls + 1
    /\ tasks' = [tasks EXCEPT ![Standalone] =
                    Begin(c, w, h, SameTriple(tasks[Standalone], c, w, h))]
    /\ gal' = NoGallery
    /\ UNCHANGED <<kt, unsplash_access_key, settings_key, registry, pyhash, store, now>>

\* get_image_gallery(categories, width, height): asyncio.gather makes one
\* get_image task per category, and the event loop runs each, in order, up to
\* its first network await before it handles any response
GalleryCall(cats, w, h) ==
    /\ ~gal.active
    /\ tasks[Standalone].st \in {"idle", "done"}
    /\ ncalls + Len(cats) <= MaxCalls
    /\ ncalls' = ncalls + Len(cats)
    /\ tasks' = [i \in TaskIds |->
                    IF i <= Len(cats) THEN Begin(cats[i], w, h, FALSE) ELSE IdleTask]
    /\ gal' = [NoGallery EXCEPT !.active = TRUE, !.cats = cats, !.w = w, !.h = h]
    /\ UNCHANGED <<kt, unsplash_access_key, settings_key, registry, pyhash, store, now>>

\* this variant of the filter also drops the local placeholders
FilterImages_DropPlaceholder(results) ==
    SelectSeq(results, LAMBDA img : IsStr(img) /\ img # ""
                                    /\ \A s \in Sizes : img # _get_local_placeholder(s[1], s[2]))

\* [img for img in results if isinstance(img, str) and img]
FilterImages(results) == SelectSeq(results, LAMBDA img : IsStr(img) /\ img # "")

\* a gallery that hands its results back last task first
GalleryReturn_Reversed ==
    /\ gal.active
    /\ \A i \in 1..Len(gal.cats) : tasks[i].st = "done"
    /\ LET n == Len(gal.cats)
           results == [i \in 1..n |-> tasks[n + 1 - i].res] IN
       gal' = [gal EXCEPT !.active = FALSE, !.results = results,
                          !.images = FilterImages(results)]
    /\ tasks' = [i \in TaskIds |-> IdleTask]
    /\ UNCHANGED <<kt, unsplash_access_key, settings_key, registry, pyhash, store, now, ncalls>>

\* asyncio.gather returns once every task is done; the list is filtered
GalleryReturn ==
    /\ gal.active
    /\ \A i \in 1..Len(gal.cats) : tasks[i].st = "done"
    /\ LET results == [i \in 1..Len(gal.cats) |-> tasks[i].res] IN
       gal' = [gal EXCEPT !.active = FALSE, !.results = results,
                          !.images = FilterImages(results)]
    /\ tasks' = [i \in TaskIds |-> IdleTask]
    /\ UNCHANGED <<kt, unsplash_access_key, settings_key, registry, pyhash, store, now, ncalls>>

SearchOutcomes == {"ok", "non200", "empty", "timeout", "malformed"}
HeadOutcomes == {"ok", "non200", "timeout"}

\* the search request of _fetch_from_unsplash completes
SearchResponse(t, outcome, raw, wo) ==
    /\ tasks[t].st = "search"
    /\ IF outcome = "ok"
       THEN Conclude(t, [tasks[t] EXCEPT !.p1 = "url"],
                     UnsplashUrl(raw, tasks[t].w, tasks[t].h), wo)
       ELSE \* non-200, no results, timeout, malformed payload: None, and the
            \* existence check of _fetch_fallback_image is sent
            /\ wo = "ok"
            /\ tasks' = [tasks EXCEPT ![t] =
                            [@ EXCEPT !.st = "head", !.p1 = "absent", !.nreq = 2,
                                      !.kw = Keywords(tasks[t].cat)]]
            /\ store' = store
    /\ UNCHANGED <<kt, unsplash_access_key, settings_key, registry, pyhash, now, gal, ncalls>>

\* the existence check (HEAD) of _fetch_fallback_image completes: status 200
\* gives the keyword URL, anything else (line 155) or an exception (line 159)
\* the random-image URL
HeadResponse(t, outcome, wo) ==
    /\ tasks[t].st = "head"
    /\ IF outcome = "ok"
       THEN Conclude(t, [tasks[t] EXCEPT !.p2 = "url"],
                     SourceUrl(tasks[t].cat, tasks[t].w, tasks[t].h), wo)
       ELSE Conclude(t, [tasks[t] EXCEPT !.p2 = "absent", !.p3 = "url"],
                     PicsumUrl(tasks[t].cat, tasks[t].w, tasks[t].h), wo)
    /\ UNCHANGED <<kt, unsplash_access_key, settings_key, registry, pyhash, now, gal, ncalls>>

\* twelve hours pass; a request in flight ends within its timeout (10 s for the
\* search, 5 s for the existence check), so none spans a step of the clock
Tick ==
    /\ \A t \in TaskIds : tasks[t].st \in {"idle", "done"}
    /\ now + 12 <= MaxNow
    /\ now' = now + 12
    /\ UNCHANGED <<kt, unsplash_access_key, settings_key, registry, pyhash, store, tasks, gal, ncalls>>

Next ==
    \/ \E c \in Categories, s \in Sizes : GetImage(c, s[1], s[2])
    \/ \E n \in 1..MaxGallery, s \in Sizes :
            \E cats \in [1..n -> Categories] : GalleryCall(cats, s[1], s[2])
    \/ GalleryReturn
    \/ \E t \in TaskIds, o \in SearchOutcomes, r \in RawUrls, wo \in WriteOutcomes :
            SearchResponse(t, o, r, wo)
    \/ \E t \in TaskIds, o \in HeadOutcomes, wo \in WriteOutcomes : HeadResponse(t, o, wo)
    \/ Tick

Spec == Init /\ [][Next]_vars

(* ------------------- the cache key as a pure function ------------------ *)

\* category strings over an alphabet holding the delimiter, a digit and a sign
KeyAlphabet == {"a", "_", "1", "-"}
RECURSIVE CatStringsOfLen(_)
CatStringsOfLen(n) ==
    IF n = 0 THEN {""} ELSE {s \o ch : s \in CatStringsOfLen(n - 1), ch \in KeyAlphabet}
TestCategories == UNION {CatStringsOfLen(n) : n \in 0..MaxCatLen}
TestDims == {1, 11, -1}
TestTriples == TestCategories \X TestDims \X TestDims

InitKey ==
    /\ unsplash_access_key = PLACEHOLDER_KEY
    /\ settings_key = None
    /\ registry = business_categories
    /\ pyhash = [c \in StrCategories |-> 0]
    /\ store = [x \in AllKeys |-> AbsentFile]
    /\ now = 0
    /\ tasks = [t \in TaskIds |-> IdleTask]
    /\ gal = NoGallery
    /\ ncalls = 0
    /\ \E a \in TestTriples, b \in TestTriples : kt = [NoKeyTest EXCEPT !.a = a, !.b = b]

\* the key string of _generate_cache_key, computed for both triples
GenerateKeys ==
    /\ ~kt.done
    /\ kt' = [kt EXCEPT !.ka = KeyString(kt.a[1], kt.a[2], kt.a[3]),
                        !.kb = KeyString(kt.b[1], kt.b[2], kt.b[3]),
                        !.done = TRUE]
    /\ UNCHANGED <<unsplash_access_key, settings_key, registry, pyhash, store, now, tasks, gal, ncalls>>

NextKey == GenerateKeys

SpecKey == InitKey /\ [][NextKey]_vars

(* ------------------------- claims: vocabulary -------------------------- *)

KeyOf(tk) == _generate_cache_key(tk.cat, tk.w, tk.h)
PlaceholderOf(tk) == _get_local_placeholder(tk.w, tk.h)
Running == {t \in TaskIds : tasks[t].st # "idle"}
Finished == {t \in TaskIds : tasks[t].st = "done"}

\* the step in which get_image call t is entered
Begins(t) == ncalls' > ncalls /\ tasks'[t].st # "idle"
\* the step in which a caller repeats, right after it returned, the same call
SecondCallStep ==
    tasks[Standalone].st = "done" /\ ncalls' = ncalls + 1 /\ tasks'[Standalone].again

\* the call left its URL in the cache: it was served from it, or it wrote it
Stored(tk) == tk.hit \/ tk.wrote = "ok"
FreshRecord(k) == store[k].kind = "record" /\ now - store[k].ts < cache_duration
ExpiredRecord(k) == store[k].kind = "record" /\ now - store[k].ts >= cache_duration

\* the call missed the cache and went on to the providers
Walked(tk) == ~tk.hit /\ (tk.st \in {"search", "head"} \/ tk.p1 # "-")

\* the search request was sent by this call
Searched(tk) == tk.st = "search" \/ tk.p1 = "url" \/ tk.nreq = 2

\* what the provider walk of a call that missed the cache hands back
AttemptResult(tk) ==
    IF tk.p1 = "url" THEN {UnsplashUrl(r, tk.w, tk.h) : r \in RawUrls}
    ELSE IF tk.p2 = "url" THEN {SourceUrl(tk.cat, tk.w, tk.h)}
    ELSE IF tk.p3 = "url" THEN {PicsumUrl(tk.cat, tk.w, tk.h)}
    ELSE {PlaceholderOf(tk)}

(* ------------------------------- claims -------------------------------- *)

\* C1: every get_image call returns, and what it returns is a non-empty string,
\* whatever the providers answered and whatever the cache files held or the
\* cache write did.
C1_NonEmptyResult ==
    \A t \in Finished : IsStr(tasks[t].res) /\ tasks[t].res # ""

\* C1 witness: the search failed, the existence check failed and the cache write
\* failed after the open; the call still returned a URL.
C1_Witness ==
    \E t \in Finished :
        /\ tasks[t].p1 = "absent" /\ tasks[t].nreq = 2 /\ tasks[t].p3 = "url"
        /\ tasks[t].wrote = "dump_failed"
        /\ store[KeyOf(tasks[t])].kind = "unreadable"
        /\ IsStr(tasks[t].res)

C3_TtlExpiry ==
    [][ /\ \A t \in TaskIds : Begins(t) =>
              LET tk == tasks'[t]
                  k == KeyOf(tk)
              IN  /\ tk.hit => (FreshRecord(k) /\ tk.res = store[k].url)
                  /\ ExpiredRecord(k) =>
                        (~tk.hit /\ tk.st \in {"search", "head"} /\ tk.nreq = 1)
        /\ \A t \in TaskIds :
              (tasks'[t].st = "done" /\ ~tasks'[t].hit) =>
                  (tasks'[t].p1 # "-" /\ tasks'[t].res \in AttemptResult(tasks'[t])) ]_vars

\* C3 witness: a record exactly 24 hours old was not reused: the call is waiting
\* for a provider.
C3_Witness ==
    \E t \in TaskIds :
        /\ tasks[t].st \in {"search", "head"}
        /\ store[KeyOf(tasks[t])].kind = "record"
        /\ now - store[KeyOf(tasks[t])].ts = cache_duration

C5_WalkOrder ==
    \A t \in Running :
        LET tk == tasks[t] IN
        /\ tk.st = "head" => tk.p1 = "absent"
        /\ tk.p2 # "-" => tk.p1 = "absent"
        /\ tk.p3 # "-" => (tk.p1 = "absent" /\ tk.p2 \in {"absent", "raised"})
        /\ tk.p1 = "url" => (tk.p2 = "-" /\ tk.p3 = "-")
        /\ tk.p2 = "url" => (tk.p3 = "-" /\ tk.res = SourceUrl(tk.cat, tk.w, tk.h))
        /\ tk.hit => (tk.p1 = "-" /\ tk.p2 = "-" /\ tk.p3 = "-" /\ tk.nreq = 0)
        /\ (tk.st = "done" /\ ~tk.hit) => tk.res \in AttemptResult(tk)

\* C5 witness: the search was sent and gave nothing, the existence check
\* succeeded: the call returned the keyword URL and the random provider never ran.
C5_Witness ==
    \E t \in Finished :
        /\ tasks[t].p1 = "absent" /\ tasks[t].nreq = 2
        /\ tasks[t].p2 = "url" /\ tasks[t].p3 = "-"
        /\ tasks[t].res = SourceUrl(tasks[t].cat, tasks[t].w, tasks[t].h)

\* C6: the gallery returns, in input order, the results of its per-category
\* calls without the entries that are not non-empty strings; it is never longer
\* than its input and a placeholder result stays in it.
RECURSIVE KeepValid(_)
KeepValid(seq) ==
    IF seq = <<>> THEN <<>>
    ELSE (IF IsStr(Head(seq)) /\ Head(seq) # "" THEN <<Head(seq)>> ELSE <<>>)
            \o KeepValid(Tail(seq))

C6_GalleryTolerance ==
    [][ (gal.active /\ ~gal'.active) =>
            /\ Len(gal'.results) = Len(gal.cats)
            /\ \A i \in 1..Len(gal.cats) :
                  /\ tasks[i].cat = gal.cats[i]
                  /\ gal'.results[i] = tasks[i].res
                  /\ gal'.results[i] = PlaceholderOf(tasks[i]) =>
                        \E j \in 1..Len(gal'.images) : gal'.images[j] = gal'.results[i]
            /\ Len(gal'.images) <= Len(gal.cats)
            /\ gal'.images = KeepValid(gal'.results) ]_vars

\* C6 witness: a gallery of two whose first category came to the placeholder and
\* whose second to a URL returned both, in input order.
C6_Witness ==
    /\ ~gal.active /\ Len(gal.cats) = 2
    /\ gal.cats[1] = UnhashableArg /\ gal.cats[2] = "business-team"
    /\ Len(gal.images) = 2
    /\ gal.images[1] = _get_local_placeholder(gal.w, gal.h)
    /\ gal.images[2] = SourceUrl("business-team", gal.w, gal.h)

\* C7: the key strings of two argument triples are equal only if the triples
\* are equal, for categories that hold the delimiter, digits and signs.
C7_KeyInjective ==
    (kt.done /\ kt.ka = kt.kb) => kt.a = kt.b

\* C7 witness: ("a1", 1, 1) and ("a", 11, 1), which differ only in where the
\* digit stands, got different key strings.
C7_Witness ==
    /\ kt.done /\ kt.a = <<"a1", 1, 1>> /\ kt.b = <<"a", 11, 1>>
    /\ kt.ka = "a1_1_1" /\ kt.kb = "a_11_1"

\* C8: when the search answers 200 with a top result, the call returns the raw
\* URL followed by "&w=<w>&h=<h>&fit=crop&crop=center", writes a record with
\* that URL under the key of its triple, and runs no other provider.
C8_SearchSuccess ==
    [][ \A t \in TaskIds : (tasks[t].st = "search" /\ tasks'[t].p1 = "url") =>
            LET tk == tasks'[t] IN
            /\ tk.st = "done" /\ ~tk.hit
            /\ (tk.w = 1920 /\ tk.h = 1080) =>
                  tk.res = "https://img.example/photo123/raw&w=1920&h=1080&fit=crop&crop=center"
            /\ tk.p2 = "-" /\ tk.p3 = "-" /\ tk.nreq = 1
            /\ tk.wrote \in WriteOutcomes
            /\ tk.wrote = "ok" => store'[KeyOf(tk)] = RecordFile(tk.res, now)
            /\ \A k \in AllKeys \ {KeyOf(tk)} : store'[k] = store[k] ]_vars

\* C8 witness: get_image("business-team", 1920, 1080) returned the search URL
\* and its record is in the cache under the key of that triple.
C8_Witness ==
    \E t \in Finished :
        /\ tasks[t].cat = "business-team" /\ tasks[t].p1 = "url" /\ tasks[t].wrote = "ok"
        /\ tasks[t].res = "https://img.example/photo123/raw&w=1920&h=1080&fit=crop&crop=center"
        /\ store["md5(business-team_1920_1080)"].url = tasks[t].res

\* C9: a cache file that is missing or cannot be read is a miss and the
\* providers are walked; a cache write that fails does not change what the call
\* returns: the URL its provider gave.
C9_CacheFailureNotFatal ==
    [][ /\ \A t \in TaskIds :
              (Begins(t) /\ store[KeyOf(tasks'[t])].kind \in {"absent", "unreadable"}) =>
                  Walked(tasks'[t])
        /\ \A t \in TaskIds :
              (tasks[t].st \in {"search", "head"} /\ tasks'[t].st = "done"
                    /\ tasks'[t].wrote \in {"open_failed", "dump_failed"}) =>
                  /\ tasks'[t].res \in AttemptResult(tasks'[t])
                  /\ tasks'[t].res # PlaceholderOf(tasks'[t])
                  /\ IsStr(tasks'[t].res) ]_vars

\* C9 witness: the record file could not be read, the existence check succeeded,
\* the write failed at the open; the call returned the keyword URL.
C9_Witness ==
    \E t \in Finished :
        /\ tasks[t].wrote = "open_failed"
        /\ store[KeyOf(tasks[t])].kind = "unreadable"
        /\ tasks[t].res = SourceUrl(tasks[t].cat, tasks[t].w, tasks[t].h)

\* C10: on a cache miss the search request is sent when a real credential is
\* set in the application configuration, and is not sent when none is.
C10_CredentialFromSettings ==
    \A t \in Running :
        (~tasks[t].hit /\ Hashable(tasks[t].cat)) =>
            /\ settings_key = RealKey => Searched(tasks[t])
            /\ (settings_key = None /\ ~Configured) => ~Searched(tasks[t])

\* C11: a provider that looks up the keywords of a category string gets, for a
\* registered category, its registered non-empty list in its order, and for any
\* other category the one-element list holding the category itself; the lookup
\* gives a list in every case and leaves the registry as it was.
C11_KeywordLookup ==
    [][ /\ \A t \in TaskIds :
              LET tk == tasks'[t] IN
              (Walked(tk) /\ Hashable(tk.cat)) =>
                  /\ tk.cat \in DOMAIN registry =>
                        (tk.kw = registry[tk.cat] /\ Len(tk.kw) > 0)
                  /\ tk.cat = "business-team" =>
                        tk.kw = <<"business", "team", "office", "professional">>
                  /\ tk.cat \notin DOMAIN registry => tk.kw = <<tk.cat>>
                  /\ tk.p2 # "raised" /\ tk.p3 # "raised"
        /\ registry' = registry ]_vars

\* C11 witness: in a gallery of a registered and an unregistered category both
\* calls looked their keywords up, and the unregistered one got the URL of its
\* own name as the keyword.
C11_Witness ==
    /\ gal.active
    /\ tasks[1].cat = "business-team"
    /\ tasks[1].kw = <<"business", "team", "office", "professional">>
    /\ tasks[2].cat = "nonexistent-category" /\ tasks[2].st = "done"
    /\ tasks[2].kw = <<"nonexistent-category">>
    /\ tasks[2].res = "https://source.unsplash.com/1920x1080/?nonexistent-category"
    /\ registry = business_categories

\* C12: a call looks its key up in the cache before it sends any request; with
\* a record younger than 24 hours it returns the record's URL at once, sends no
\* request, writes nothing and leaves the store (URL and time of every record)
\* as it was; a cache write happens only in the step in which a provider's
\* response gave the call a URL.
C12_StepOrdering ==
    [][ /\ \A t \in TaskIds : Begins(t) =>
              LET tk == tasks'[t]
                  k == KeyOf(tk)
              IN  /\ FreshRecord(k) =>
                        /\ tk.st = "done" /\ tk.hit /\ tk.res = store[k].url
                        /\ tk.nreq = 0 /\ tk.p1 = "-" /\ tk.p2 = "-" /\ tk.p3 = "-"
                        /\ tk.wrote = "-"
                        /\ store'[k] = store[k]
                  /\ tk.nreq > 0 => (~tk.hit /\ ~FreshRecord(k))
                  /\ tk.wrote = "-"
        /\ (\E t \in TaskIds : Begins(t)) => store' = store
        /\ \A t \in TaskIds :
              (tasks'[t].wrote # "-" /\ tasks[t].wrote = "-") =>
                  /\ tasks[t].st \in {"search", "head"} /\ tasks[t].nreq > 0
                  /\ ~tasks'[t].hit
                  /\ "url" \in {tasks'[t].p1, tasks'[t].p2, tasks'[t].p3}
                  /\ tasks'[t].res \in AttemptResult(tasks'[t])
        /\ \A k \in AllKeys : store'[k] # store[k] =>
              \E t \in TaskIds :
                  /\ tasks[t].st \in {"search", "head"} /\ tasks'[t].st = "done"
                  /\ KeyOf(tasks'[t]) = k /\ tasks'[t].wrote \in {"ok", "dump_failed"} ]_vars

\* C12 witness: twelve hours after the record was written a call was served
\* from it, with no request and no write, and the record still carries hour 0.
C12_Witness ==
    LET tk == tasks[Standalone] IN
    /\ tk.st = "done" /\ tk.hit /\ ~tk.again /\ tk.nreq = 0 /\ tk.wrote = "-"
    /\ now = 12 /\ tk.res = "https://old.example/a.jpg"
    /\ store[KeyOf(tk)] = RecordFile("https://old.example/a.jpg", 0)

\* a reference to a local placeholder image
IsPlaceholder(u) == \E s \in Sizes : u = _get_local_placeholder(s[1], s[2])

\* C13: in every reachable state no cache record holds a local placeholder as
\* its URL, a call that returned the placeholder wrote nothing to the cache,
\* and no call was served a placeholder from the cache.
C13_PlaceholderNeverCached ==
    /\ \A k \in AllKeys : store[k].kind = "record" => ~IsPlaceholder(store[k].url)
    /\ \A t \in Finished :
          LET tk == tasks[t] IN
          /\ tk.res = PlaceholderOf(tk) =>
                (tk.wrote = "-" /\ ~tk.hit)
          /\ tk.hit => ~IsPlaceholder(tk.res)

\* C13 witness: a gallery whose first call returned the placeholder and whose
\* second wrote its URL: the store holds the second's record and nothing under
\* the key of the first.
C13_Witness ==
    /\ gal.active /\ Finished = {1, 2}
    /\ tasks[1].res = "/static/images/placeholder-1920x1080.svg"
    /\ tasks[1].wrote = "-"
    /\ store[KeyOf(tasks[1])] = AbsentFile
    /\ tasks[2].wrote = "ok"
    /\ store[KeyOf(tasks[2])] = RecordFile(tasks[2].res, now)
    /\ ~IsPlaceholder(tasks[2].res)

\* the step in which call t gets the response that ends it
Completes(t) == tasks[t].st \in {"search", "head"} /\ tasks'[t].st = "done"

\* C14: a step of a get_image call changes at most the cache file of the key of
\* its own triple, and no step removes a record from the store; once the calls
\* of a gallery over different triples are all done, every key one of them
\* wrote holds the record of that call, in whatever order they completed.
C14_Frame ==
    [][ /\ \A k \in AllKeys :
              /\ store'[k] # store[k] =>
                    \E t \in TaskIds : Completes(t) /\ KeyOf(tasks'[t]) = k
              /\ store[k].kind = "record" => store'[k].kind = "record"
        /\ ( /\ gal'.active
             /\ \A i \in 1..Len(gal'.cats) : tasks'[i].st = "done"
             /\ \A i, j \in 1..Len(gal'.cats) :
                    i # j => KeyOf(tasks'[i]) # KeyOf(tasks'[j]) )
           => \A i \in 1..Len(gal'.cats) :
                  tasks'[i].wrote = "ok" =>
                      /\ store'[KeyOf(tasks'[i])].kind = "record"
                      /\ store'[KeyOf(tasks'[i])].url = tasks'[i].res ]_vars

\* two calls of the running gallery with the same triple
SameKeyPair(i, j) ==
    /\ i \in 1..Len(gal.cats) /\ j \in 1..Len(gal.cats) /\ i # j
    /\ gal.active /\ KeyOf(tasks[i]) = KeyOf(tasks[j])

SeedsOf(c) ==
    {pyhash[c] - 1000 * q : q \in -10..10} \cap 0..999

\* C16: when the search gave nothing and the existence check answers with a
\* status other than 200, times out or raises, the call ends in that step with
\* the random-image URL "https://picsum.photos/<w>/<h>?random=<seed>", seed
\* being hash(category) mod 1000 in 0..999, and writes that URL under its key;
\* two calls for one category get the same seed, and the random provider of a
\* category string always gives a URL.
C16_FallbackToRandom ==
    [][ /\ \A t \in TaskIds :
              (tasks[t].st = "head" /\ tasks'[t].st # "head" /\ tasks'[t].p2 # "url") =>
                  LET tk == tasks'[t] IN
                  /\ tasks[t].p1 = "absent" /\ ~tk.hit
                  /\ tk.st = "done" /\ tk.p2 = "absent" /\ tk.p3 = "url"
                  /\ \E seed \in SeedsOf(tk.cat) :
                        (tk.w = 1920 /\ tk.h = 1080) =>
                            tk.res = "https://picsum.photos/1920/1080?random=" \o ToString(seed)
                  /\ tk.wrote \in WriteOutcomes
                  /\ tk.wrote = "ok" => store'[KeyOf(tk)] = RecordFile(tk.res, now)
        /\ \A t, u \in TaskIds :
              ( /\ tasks'[t].st = "done" /\ tasks'[u].st = "done"
                /\ tasks'[t].p3 = "url" /\ tasks'[u].p3 = "url"
                /\ tasks'[t].cat = tasks'[u].cat ) => tasks'[t].res = tasks'[u].res
        /\ \A t \in TaskIds :
              (Hashable(tasks'[t].cat) /\ tasks'[t].p3 # "-") =>
                  (tasks'[t].p3 = "url" /\ Truthy(tasks'[t].res)) ]_vars

\* C16 witness: no credential, the existence check failed; the category's hash
\* is negative and the call returned and cached the random-image URL with seed
\* 997.
C16_Witness ==
    \E t \in Finished :
        /\ tasks[t].nreq = 1 /\ tasks[t].p1 = "absent" /\ tasks[t].p2 = "absent"
        /\ tasks[t].p3 = "url" /\ pyhash[tasks[t].cat] < 0
        /\ tasks[t].res = "https://picsum.photos/1920/1080?random=997"
        /\ tasks[t].wrote = "ok"
        /\ store[KeyOf(tasks[t])] = RecordFile(tasks[t].res, now)

\* C17: when the cache write of a call fails, at the open or while the record
\* is written, a record that was stored under the key before the write is
\* still there after it, with the same URL and the same time.
C17_FailedWriteKeepsRecord ==
    [][ \A t \in TaskIds :
            ( /\ Completes(t)
              /\ tasks'[t].wrote \in {"open_failed", "dump_failed"}
              /\ store[KeyOf(tasks'[t])].kind = "record" ) =>
                store'[KeyOf(tasks'[t])] = store[KeyOf(tasks'[t])] ]_vars

\* C18: the list a gallery returns has exactly one entry per input category,
\* and its i-th entry is what the call for the i-th category returned (a URL of
\* a provider asked for that category, the URL it was served from the cache, or
\* the placeholder), whatever the providers and the cache did.
C18_PositionalAlignment ==
    [][ (gal.active /\ ~gal'.active) =>
            /\ Len(gal'.images) = Len(gal.cats)
            /\ gal'.cats = gal.cats
            /\ \A i \in 1..Len(gal.cats) :
                  LET tk == tasks[i] IN
                  /\ tk.cat = gal.cats[i] /\ tk.w = gal.w /\ tk.h = gal.h
                  /\ gal'.images[i] = tk.res
                  /\ IsStr(gal'.images[i]) /\ gal'.images[i] # ""
                  /\ (~tk.hit /\ Hashable(gal.cats[i])) =>
                        gal'.images[i] \in
                            {UnsplashUrl(r, gal.w, gal.h) : r \in RawUrls}
                            \cup {SourceUrl(gal.cats[i], gal.w, gal.h),
                                  PicsumUrl(gal.cats[i], gal.w, gal.h)}
                  /\ ~Hashable(gal.cats[i]) =>
                        gal'.images[i] = _get_local_placeholder(gal.w, gal.h) ]_vars

\* C18 witness: the gallery of an unregistered and a registered category
\* returned two URLs, the first carrying the keyword of the first category and
\* the second that of the second.
C18_Witness ==
    /\ ~gal.active
    /\ gal.cats = <<"nonexistent-category", "business-team">>
    /\ Len(gal.images) = 2
    /\ gal.images[1] = "https://source.unsplash.com/1920x1080/?nonexistent-category"
    /\ gal.images[2] = "https://source.unsplash.com/1920x1080/?business"
====
